---- MODULE Spec2Model ----
(***************************************************************************)
(* A model of my.py: the structural encoder (Encoder.default_encode),      *)
(* json_encode / json_decode, the call-site printer dumped_at with its     *)
(* wrappers dump / log / err, and the chunks_list generator.               *)
(*                                                                         *)
(* Python values are pairs <<tag, payload>>.  A Python string              *)
(* is a sequence of tokens; a token is one character ("a", "/", a quote,   *)
(* a backslash, a newline) or an inert piece of text without any quote,    *)
(* backslash or newline in it ("class", "Foo", "Traceback ...").           *)
(***************************************************************************)
EXTENDS Integers, Sequences, FiniteSets, TLC

VARIABLES
    \* ---- encoder / json ----
    epc,        \* position of the encoder client: "idle", "encoded", "text", "decoded"
    arg,        \* the value handed to the operation
    handling,   \* the exception being handled (sys.exc_info), or NoExc
    callerGlobals, \* names of the types defined in the calling module
    encoded,    \* result of Encoder.default_encode(arg)
    text,       \* result of json_encode(arg)
    decoded,    \* result of json_decode(text)
    \* ---- dumped_at and its wrappers ----
    dpc,        \* "idle", "search", "format", "done"
    who,        \* "direct", "dump", "log", "err"
    stack,      \* traceback.extract_stack(): frames, outermost first
    skip,       \* dumped_at's skip
    vars_,      \* dumped_at's *var
    frames,     \* local frames
    filename,   \* local filename
    dirname,    \* local dirname (a string, or NoneDir)
    iters,      \* iterations of the while loop so far
    result,     \* what dumped_at returned or raised
    fs,         \* the paths that exist on the file system
    cwd,        \* the current working directory
    logfile,    \* content of log.txt in each directory, or Absent
    logInit,    \* history: logfile at the start
    logged,     \* history: per directory, the records of the completed log calls
    emitted,    \* what the latest call has printed: <<stream, text>>
    calls,      \* wrapper calls started so far
    \* ---- chunks_list ----
    lst,        \* the list
    size,       \* the chunk size
    gens        \* the generator objects made by the calls chunks_list(lst, size)

encVars == <<epc, arg, handling, callerGlobals, encoded, text, decoded>>
dumpVars == <<dpc, who, stack, skip, vars_, frames, filename, dirname, iters,
              result, fs, cwd, logfile, logInit, logged, emitted, calls>>
chunkVars == <<lst, size, gens>>
vars == <<encVars, dumpVars, chunkVars>>

----------------------------------------------------------------------------
(* Characters with a meaning to JSON and to str.split / str.replace *)
QUOTE == "\""
BSL == "\\"
NL == "\n"
SP == " "

(* Python values *)
PyInt(n) == <<"int", n>>
PyStr(s) == <<"str", s>>
PyBool(b) == <<"bool", b>>
PyNone == <<"none", <<>>>>
PyList(s) == <<"list", s>>
PyTuple(s) == <<"tuple", s>>
PyDict(pairs) == <<"dict", pairs>>
PyDatetime(y, mo, d, h, mi, s, us) == <<"datetime", <<y, mo, d, h, mi, s, us>>>>
PyGen(s) == <<"gen", s>>
PyKeys(s) == <<"keys", s>>
(* An exception instance: its class, its message, and where it was raised
   ("" when it never was, so that it carries no traceback). *)
PyExc(cls, msg, site) == <<"exc", [cls |-> cls, msg |-> msg, site |-> site]>>
(* An instance of a user class.  qual: the class's qualified name has only
   word characters and dots, or is a local class ("f.<locals>.Foo");
   str: "default" (object.__str__) or "custom" with the text it returns;
   dict: whether the instance has a __dict__, attrs being its content. *)
PyObj(cls, qual, str, txt, dict, attrs) ==
    <<"obj", [cls |-> cls, qual |-> qual, str |-> str, txt |-> txt,
             dict |-> dict, attrs |-> attrs]>>
(* An operation that raised *)
Raise(kind) == <<"raise", kind>>
IsRaise(x) == x[1] = "raise"
NoExc == <<"noexc", <<>>>>

(* The first raise among the results of a left-to-right evaluation *)
FirstRaise(rs) ==
    rs[CHOOSE i \in 1..Len(rs) : IsRaise(rs[i]) /\ \A j \in 1..(i - 1) : ~IsRaise(rs[j])]
AnyRaise(rs) == \E i \in 1..Len(rs) : IsRaise(rs[i])

----------------------------------------------------------------------------
(* str(int) *)
Digit(n) ==
    CASE n = 0 -> "0" [] n = 1 -> "1" [] n = 2 -> "2" [] n = 3 -> "3" [] n = 4 -> "4"
      [] n = 5 -> "5" [] n = 6 -> "6" [] n = 7 -> "7" [] n = 8 -> "8" [] n = 9 -> "9"

RECURSIVE IntDigits(_)
IntDigits(n) == IF n < 10 THEN <<Digit(n)>> ELSE IntDigits(n \div 10) \o <<Digit(n % 10)>>

int_str(n) == IF n < 0 THEN <<"-">> \o IntDigits(-n) ELSE IntDigits(n)

(* a number zero-padded to two digits, as %m %d %H %M %S print it *)
Pad2(n) == IF n < 10 THEN <<"0">> \o IntDigits(n) ELSE IntDigits(n)

(* o.strftime("%Y-%m-%d %H:%M:%S") *)
strftime(d) ==
    IntDigits(d[1]) \o <<"-">> \o Pad2(d[2]) \o <<"-">> \o Pad2(d[3]) \o <<SP>>
        \o Pad2(d[4]) \o <<":">> \o Pad2(d[5]) \o <<":">> \o Pad2(d[6])

(* s.replace("\\n", "\n"): every backslash followed by n, left to right *)
RECURSIVE unescape_newlines(_)
unescape_newlines(s) ==
    IF Len(s) = 0 THEN <<>>
    ELSE IF Len(s) >= 2 /\ s[1] = BSL /\ s[2] = "n"
         THEN <<NL>> \o unescape_newlines(SubSeq(s, 3, Len(s)))
         ELSE <<s[1]>> \o unescape_newlines(Tail(s))

(* traceback.format_exc(): the text of the exception being handled *)
format_exc(h) ==
    IF h[1] = "noexc" THEN <<"NoneType: None", NL>>
    ELSE <<"Traceback (most recent call last):", NL, "  File ", h[2].site, NL,
           h[2].cls, ": ">> \o h[2].msg \o <<NL>>

(* object.__str__: "<__main__.Foo object at 0x7f...>" *)
default_str(o) == <<"<", "__main__.", o[2].cls, " object at 0x7f3a5c0e1d90", ">">>

(* str(o) *)
py_str(o) ==
    CASE o[1] = "int" -> int_str(o[2])
      [] o[1] = "str" -> o[2]
      [] o[1] = "bool" -> IF o[2] THEN <<"True">> ELSE <<"False">>
      [] o[1] = "none" -> <<"None">>
      [] o[1] = "obj" -> IF o[2].str = "custom" THEN o[2].txt ELSE default_str(o)

(* printed(var): print into a StringIO, then unescape *)
printed(o) == unescape_newlines(py_str(o) \o <<NL>>)

(* hash(x) works: what a dict accepts as a key *)
RECURSIVE Hashable(_)
Hashable(x) ==
    CASE x[1] \in {"list", "dict"} -> FALSE
      [] x[1] = "tuple" -> \A i \in 1..Len(x[2]) : Hashable(x[2][i])
      [] OTHER -> TRUE

(* d[k] = v on an insertion-ordered dict *)
dict_set(pairs, k, v) ==
    IF \E i \in 1..Len(pairs) : pairs[i][1] = k
    THEN [i \in 1..Len(pairs) |-> IF pairs[i][1] = k THEN <<k, v>> ELSE pairs[i]]
    ELSE Append(pairs, <<k, v>>)

(* a | b *)
RECURSIVE merge_dicts(_, _)
merge_dicts(a, b) ==
    IF Len(b) = 0 THEN a
    ELSE merge_dicts(dict_set(a, b[1][1], b[1][2]), Tail(b))

(* {k: v for k, v in ks, vs}: TypeError at the first unhashable key *)
RECURSIVE build_dict(_, _)
build_dict(kvs, acc) ==
    IF Len(kvs) = 0 THEN PyDict(acc)
    ELSE IF IsRaise(kvs[1][1]) THEN kvs[1][1]
    ELSE IF IsRaise(kvs[1][2]) THEN kvs[1][2]
    ELSE IF ~Hashable(kvs[1][1]) THEN Raise("TypeError")
    ELSE build_dict(Tail(kvs), dict_set(acc, kvs[1][1], kvs[1][2]))

(* whether rule 7 returns the object's string: its type prints as
   <class 'word.word'> and its string is not the default representation *)
returns_str(o) ==
    CASE o[1] \in {"int", "str", "bool", "none"} -> TRUE
      [] o[1] = "obj" -> o[2].qual = "plain" /\ o[2].str = "custom"
      [] OTHER -> FALSE

has_dict(o) == o[1] = "obj" /\ o[2].dict

(* Encoder.__encode_dict, h being the exception in sys.exc_info *)
RECURSIVE encode_dict(_, _)
encode_dict(o, h) ==
    CASE o[1] = "list" ->
            LET r == [i \in 1..Len(o[2]) |-> encode_dict(o[2][i], h)]
            IN  IF AnyRaise(r) THEN FirstRaise(r) ELSE PyList(r)
      [] o[1] = "dict" ->
            build_dict([i \in 1..Len(o[2]) |->
                           <<encode_dict(o[2][i][1], h), encode_dict(o[2][i][2], h)>>], <<>>)
      [] o[1] = "tuple" ->
            LET r == [i \in 1..Len(o[2]) |-> encode_dict(o[2][i], h)]
            IN  IF AnyRaise(r) THEN FirstRaise(r) ELSE PyTuple(r)
      [] o[1] = "datetime" -> PyStr(strftime(o[2]))
      [] o[1] \in {"gen", "keys"} -> encode_dict(PyList(o[2]), h)
      [] o[1] = "exc" -> PyStr(format_exc(h))
      [] OTHER ->
            IF returns_str(o) THEN PyStr(py_str(o))
            ELSE IF has_dict(o)
                 THEN encode_dict(PyDict(merge_dicts(
                          << <<PyStr(<<"class">>), PyStr(<<o[2].cls>>)>> >>, o[2].attrs)), h)
                 ELSE PyStr(printed(o))

(* Encoder.default_encode *)
default_encode(o, h) == encode_dict(o, h)

----------------------------------------------------------------------------
(* json.dumps(..., ensure_ascii=False) *)

(* the body of a JSON string: quote, backslash and newline are escaped *)
RECURSIVE json_escape(_)
json_escape(s) ==
    IF Len(s) = 0 THEN <<>>
    ELSE (CASE s[1] = QUOTE -> <<BSL, QUOTE>>
            [] s[1] = BSL -> <<BSL, BSL>>
            [] s[1] = NL -> <<BSL, "n">>
            [] OTHER -> <<s[1]>>) \o json_escape(Tail(s))

json_string(s) == <<QUOTE>> \o json_escape(s) \o <<QUOTE>>

(* a dict key as json.dumps writes it; TypeError when it is none of
   str, int, bool, None *)
json_key(k) ==
    CASE k[1] = "str" -> PyStr(json_string(k[2]))
      [] k[1] = "int" -> PyStr(json_string(int_str(k[2])))
      [] k[1] = "bool" -> PyStr(json_string(IF k[2] THEN <<"true">> ELSE <<"false">>))
      [] k[1] = "none" -> PyStr(json_string(<<"null">>))
      [] OTHER -> Raise("TypeError")

(* the items joined by ", " *)
RECURSIVE json_join(_)
json_join(items) ==
    IF Len(items) = 0 THEN <<>>
    ELSE IF Len(items) = 1 THEN items[1]
    ELSE items[1] \o <<",", SP>> \o json_join(Tail(items))

(* json.dumps: the text as a PyStr, or TypeError *)
RECURSIVE json_dumps(_)
json_dumps(o) ==
    CASE o[1] = "str" -> PyStr(json_string(o[2]))
      [] o[1] = "int" -> PyStr(int_str(o[2]))
      [] o[1] = "bool" -> PyStr(IF o[2] THEN <<"true">> ELSE <<"false">>)
      [] o[1] = "none" -> PyStr(<<"null">>)
      [] o[1] \in {"list", "tuple"} ->
            LET r == [i \in 1..Len(o[2]) |-> json_dumps(o[2][i])]
            IN  IF AnyRaise(r) THEN FirstRaise(r)
                ELSE PyStr(<<"[">> \o json_join([i \in 1..Len(r) |-> r[i][2]]) \o <<"]">>)
      [] o[1] = "dict" ->
            LET ks == [i \in 1..Len(o[2]) |-> json_key(o[2][i][1])]
                vs == [i \in 1..Len(o[2]) |-> json_dumps(o[2][i][2])]
                r == [i \in 1..(2 * Len(o[2])) |->
                         IF i % 2 = 1 THEN ks[(i + 1) \div 2] ELSE vs[i \div 2]]
            IN  IF AnyRaise(r) THEN FirstRaise(r)
                ELSE PyStr(<<"{">>
                           \o json_join([i \in 1..Len(o[2]) |-> ks[i][2] \o <<":", SP>> \o vs[i][2]])
                           \o <<"}">>)
      [] OTHER -> Raise("TypeError")

(* json_encode_obj(var) *)
json_encode_obj(var, h) ==
    LET e == default_encode(var, h)
    IN  IF IsRaise(e) THEN e ELSE json_dumps(e)

(* json_encode(var) *)
json_encode(var, h) ==
    LET j == json_encode_obj(var, h)
    IN  IF IsRaise(j) THEN j ELSE PyStr(unescape_newlines(j[2]))

----------------------------------------------------------------------------
(* json.loads(string, object_hook=json_decode_obj) *)

Ok(val, end) == <<"ok", val, end>>

(* s[i:i+1] *)
At(s, i) == IF i >= 1 /\ i <= Len(s) THEN s[i] ELSE ""

IsDigit(c) == c \in {"0", "1", "2", "3", "4", "5", "6", "7", "8", "9"}
DigitVal(c) == CHOOSE n \in 0..9 : Digit(n) = c

(* the names my.py binds at module level: what globals() holds there *)
ModuleGlobals ==
    {"annotations", "KeysView", "datetime", "islice", "GeneratorType", "FunctionType",
     "Iterable", "csv", "io", "inspect", "json", "os", "re", "subprocess", "sys",
     "traceback", "printed", "Encoder", "json_encode_obj", "json_encode",
     "json_decode_obj", "json_decode", "dumped_at", "dump", "log", "err", "call",
     "chunks_dict", "chunks_list", "csv_read_to_list", "csv_read_to_dict", "csv_write",
     "sort_table", "summarise", "AbstractMethodException"}

(* those of them that are modules: calling one is a TypeError *)
ModuleNames == {"csv", "io", "inspect", "json", "os", "re", "subprocess", "sys", "traceback"}

dict_has(pairs, k) == \E i \in 1..Len(pairs) : pairs[i][1] = k
dict_get(pairs, k) == pairs[CHOOSE i \in 1..Len(pairs) : pairs[i][1] = k][2]
dict_del(pairs, k) == SelectSeq(pairs, LAMBDA p : p[1] # k)

(* globals()[class_] called with o as keyword arguments.  Of the callables only AbstractMethodException is
   given a result; keyword arguments it does not take are a TypeError. *)
globals_call(class_, kwargs) ==
    IF ~Hashable(class_) THEN Raise("TypeError")
    ELSE IF class_[1] # "str" \/ Len(class_[2]) # 1 THEN Raise("KeyError")
    ELSE IF class_[2][1] \notin ModuleGlobals THEN Raise("KeyError")
    ELSE CASE class_[2][1] \in ModuleNames -> Raise("TypeError")
           [] class_[2][1] = "AbstractMethodException" ->
                IF Len(kwargs) = 0
                THEN PyExc("AbstractMethodException", <<"abstract method">>, "")
                ELSE Raise("TypeError")

(* json_decode_obj(o) *)
json_decode_obj(o) ==
    IF o[1] = "dict" /\ dict_has(o[2], PyStr(<<"class">>))
    THEN globals_call(dict_get(o[2], PyStr(<<"class">>)), dict_del(o[2], PyStr(<<"class">>)))
    ELSE o

RECURSIVE skip_ws(_, _)
skip_ws(s, i) == IF At(s, i) \in {SP, NL} THEN skip_ws(s, i + 1) ELSE i

(* py_scanstring, strict: i is the place after the opening quote *)
RECURSIVE scanstring(_, _, _)
scanstring(s, i, acc) ==
    IF i > Len(s) THEN Raise("JSONDecodeError")
    ELSE IF s[i] = QUOTE THEN Ok(PyStr(acc), i + 1)
    ELSE IF s[i] = NL THEN Raise("JSONDecodeError")
    ELSE IF s[i] # BSL THEN scanstring(s, i + 1, Append(acc, s[i]))
    ELSE CASE At(s, i + 1) = QUOTE -> scanstring(s, i + 2, Append(acc, QUOTE))
           [] At(s, i + 1) = BSL -> scanstring(s, i + 2, Append(acc, BSL))
           [] At(s, i + 1) = "/" -> scanstring(s, i + 2, Append(acc, "/"))
           [] At(s, i + 1) = "n" -> scanstring(s, i + 2, Append(acc, NL))
           [] OTHER -> Raise("JSONDecodeError")

RECURSIVE scan_digits(_, _, _)
scan_digits(s, i, acc) ==
    IF IsDigit(At(s, i)) THEN scan_digits(s, i + 1, 10 * acc + DigitVal(s[i]))
    ELSE <<acc, i>>

(* NUMBER_RE: an optional minus, then 0 or a digit string without leading 0 *)
scan_number(s, i) ==
    LET neg == At(s, i) = "-"
        j == IF neg THEN i + 1 ELSE i
    IN  IF ~IsDigit(At(s, j)) THEN Raise("JSONDecodeError")
        ELSE LET r == IF s[j] = "0" THEN <<0, j + 1>> ELSE scan_digits(s, j, 0)
             IN  Ok(PyInt(IF neg THEN -r[1] ELSE r[1]), r[2])

RECURSIVE scan_once(_, _)
RECURSIVE json_array(_, _, _)
RECURSIVE json_object(_, _, _)

(* scan_once(string, idx) *)
scan_once(s, i) ==
    LET c == At(s, i)
    IN  CASE c = QUOTE -> scanstring(s, i + 1, <<>>)
          [] c = "{" ->
                LET j == skip_ws(s, i + 1)
                IN  IF At(s, j) = "}"
                    THEN LET h == json_decode_obj(PyDict(<<>>))
                         IN  IF IsRaise(h) THEN h ELSE Ok(h, j + 1)
                    ELSE IF At(s, j) # QUOTE THEN Raise("JSONDecodeError")
                    ELSE json_object(s, j + 1, <<>>)
          [] c = "[" ->
                LET j == skip_ws(s, i + 1)
                IN  IF At(s, j) = "]" THEN Ok(PyList(<<>>), j + 1)
                    ELSE json_array(s, j, <<>>)
          [] c = "null" -> Ok(PyNone, i + 1)
          [] c = "true" -> Ok(PyBool(TRUE), i + 1)
          [] c = "false" -> Ok(PyBool(FALSE), i + 1)
          [] c = "-" \/ IsDigit(c) -> scan_number(s, i)
          [] OTHER -> Raise("JSONDecodeError")

(* JSONArray: i is the place of the next value *)
json_array(s, i, acc) ==
    LET val == scan_once(s, i)
    IN  IF IsRaise(val) THEN val
        ELSE LET j == skip_ws(s, val[3])
             IN  CASE At(s, j) = "]" -> Ok(PyList(Append(acc, val[2])), j + 1)
                   [] At(s, j) = "," -> json_array(s, skip_ws(s, j + 1), Append(acc, val[2]))
                   [] OTHER -> Raise("JSONDecodeError")

(* JSONObject: i is the place after the opening quote of the next key;
   the finished mapping goes through the object hook *)
json_object(s, i, acc) ==
    LET key == scanstring(s, i, <<>>)
    IN  IF IsRaise(key) THEN key
        ELSE LET j == skip_ws(s, key[3])
             IN  IF At(s, j) # ":" THEN Raise("JSONDecodeError")
                 ELSE LET val == scan_once(s, skip_ws(s, j + 1))
                      IN  IF IsRaise(val) THEN val
                          ELSE LET k == skip_ws(s, val[3])
                                   pairs == dict_set(acc, key[2], val[2])
                               IN  CASE At(s, k) = "}" ->
                                          LET h == json_decode_obj(PyDict(pairs))
                                          IN  IF IsRaise(h) THEN h ELSE Ok(h, k + 1)
                                     [] At(s, k) = "," ->
                                          LET m == skip_ws(s, k + 1)
                                          IN  IF At(s, m) # QUOTE
                                              THEN Raise("JSONDecodeError")
                                              ELSE json_object(s, m + 1, pairs)
                                     [] OTHER -> Raise("JSONDecodeError")

(* json_decode(string) *)
json_decode(string) ==
    LET r == scan_once(string, skip_ws(string, 1))
    IN  IF IsRaise(r) THEN r
        ELSE IF skip_ws(string, r[3]) # Len(string) + 1 THEN Raise("JSONDecodeError")
        ELSE r[2]

----------------------------------------------------------------------------
(* The values the encoder is run on *)

MaxLen == 2          \* longest list, tuple or dict drawn as an input

Unset == <<"unset", <<>>>>

RECURSIVE SeqsUpTo(_, _)
SeqsUpTo(S, n) ==
    IF n = 0 THEN {<<>>}
    ELSE LET shorter == SeqsUpTo(S, n - 1)
         IN  shorter \cup {Append(q, x) : q \in shorter, x \in S}

Attr(name, val) == <<PyStr(<<name>>), val>>

(* class Foo with a plain __init__ setting a and b *)
Foo == PyObj("Foo", "plain", "default", <<>>, TRUE,
             <<Attr("a", PyInt(1)), Attr("b", PyStr(<<"x">>))>>)
(* a class with its own __str__ *)
Bar == PyObj("Bar", "plain", "custom", <<"bar!">>, TRUE, <<Attr("c", PyNone)>>)
(* a class defined inside a function, with its own __str__ *)
Loc == PyObj("Loc", "local", "custom", <<"loc!">>, TRUE, <<Attr("d", PyInt(1))>>)
(* a class with __slots__: no __dict__ *)
Slot == PyObj("Slot", "plain", "default", <<>>, FALSE, <<>>)

(* an exception that was raised and caught, one never raised, another raised one *)
E1 == PyExc("KeyError", <<"'k'">>, "t.py:14")
E2 == PyExc("ValueError", <<"x">>, "")
E3 == PyExc("OSError", <<"gone">>, "t.py:20")

Scalars ==
    {PyInt(1), PyInt(-12), PyBool(TRUE), PyNone, PyStr(<<"x">>), PyStr(<<"1">>),
     PyStr(<<"x", NL>>), PyStr(<<BSL, "n">>), PyStr(<<QUOTE>>)}

Specials ==
    {Foo, Bar, Loc, Slot, PyDatetime(2023, 1, 5, 8, 9, 10, 0), E1, E2,
     PyGen(<<PyInt(1)>>), PyKeys(<<PyStr(<<"x">>)>>)}

Leaves == Scalars \cup Specials

TupleElems == {PyInt(1), PyInt(2), PyStr(<<"x">>), Foo}

(* hashable values used as dict keys; no two of them are equal in Python *)
DictKeys ==
    {PyStr(<<"x">>), PyStr(<<"class">>), PyStr(<<"1">>), PyInt(1),
     PyTuple(<<PyInt(1), PyInt(2)>>), Foo, PyTuple(<<Foo>>)}

DictVals ==
    {PyInt(1), PyStr(<<"x">>), PyStr(<<"Foo">>), PyStr(<<"AbstractMethodException">>),
     PyStr(<<"os">>), PyNone, Foo, PyList(<<PyInt(1)>>)}

DistinctKeys(pairs) ==
    \A i, j \in 1..Len(pairs) : i # j => pairs[i][1] # pairs[j][1]

DictsUpTo(n) ==
    {PyDict(ps) : ps \in {q \in SeqsUpTo(DictKeys \X DictVals, n) : DistinctKeys(q)}}

Nested ==
    UNION {{PyList(<<d>>), PyDict(<<Attr("x", d)>>)} : d \in DictsUpTo(1)}

Values ==
    Leaves
    \cup {PyList(q) : q \in SeqsUpTo(Leaves, MaxLen)}
    \cup {PyTuple(q) : q \in SeqsUpTo(TupleElems, MaxLen)}
    \cup DictsUpTo(MaxLen)
    \cup Nested

(* the exception contexts a call can be made in *)
Handlings == {NoExc, E1, E3}

(* the type names the calling module may define *)
CallerNamespaces == {{"Foo", "Bar"}, {}}

EncInit ==
    /\ epc = "idle"
    /\ arg \in Values
    /\ handling \in Handlings
    /\ callerGlobals \in CallerNamespaces
    /\ encoded = Unset
    /\ text = Unset
    /\ decoded = Unset

EncIdle ==
    /\ epc = "off"
    /\ arg = Unset
    /\ handling = NoExc
    /\ callerGlobals = {}
    /\ encoded = Unset
    /\ text = Unset
    /\ decoded = Unset

(* Encoder.default_encode(arg) *)
DefaultEncode ==
    /\ epc = "idle"
    /\ encoded' = default_encode(arg, handling)
    /\ epc' = "encoded"
    /\ UNCHANGED <<arg, handling, callerGlobals, text, decoded>>
    /\ UNCHANGED <<dumpVars, chunkVars>>

(* json_encode(arg) *)
JsonEncode ==
    /\ epc = "encoded"
    /\ text' = json_encode(arg, handling)
    /\ epc' = "text"
    /\ UNCHANGED <<arg, handling, callerGlobals, encoded, decoded>>
    /\ UNCHANGED <<dumpVars, chunkVars>>

(* json_decode(text), called from the module whose globals are callerGlobals *)
JsonDecode ==
    /\ epc = "text"
    /\ ~IsRaise(text)
    /\ decoded' = json_decode(text[2])
    /\ epc' = "decoded"
    /\ UNCHANGED <<arg, handling, callerGlobals, encoded, text>>
    /\ UNCHANGED <<dumpVars, chunkVars>>

----------------------------------------------------------------------------
(* dumped_at: paths, the file system, the call stack *)

SEP == "/"

(* the project markers of the while condition *)
MarkerNames == {".git", ".idea", ".venv"}

(* p.rfind("/") + 1 *)
RECURSIVE last_sep(_, _)
last_sep(p, i) == IF i = 0 \/ p[i] = SEP THEN i ELSE last_sep(p, i - 1)

(* head.rstrip("/") *)
RECURSIVE rstrip_sep(_)
rstrip_sep(p) ==
    IF Len(p) > 0 /\ p[Len(p)] = SEP THEN rstrip_sep(SubSeq(p, 1, Len(p) - 1)) ELSE p

(* os.path.dirname (posixpath) *)
os_dirname(p) ==
    LET head == SubSeq(p, 1, last_sep(p, Len(p)))
    IN  IF Len(head) > 0 /\ \E i \in 1..Len(head) : head[i] # SEP
        THEN rstrip_sep(head)
        ELSE head

(* the components of a path string: the pieces between slashes, empty ones dropped *)
RECURSIVE components(_, _, _)
components(p, i, cur) ==
    IF i > Len(p) THEN (IF Len(cur) > 0 THEN <<cur>> ELSE <<>>)
    ELSE IF p[i] = SEP
         THEN (IF Len(cur) > 0 THEN <<cur>> ELSE <<>>) \o components(p, i + 1, <<>>)
         ELSE components(p, i + 1, Append(cur, p[i]))

(* the absolute place a path string names, relative ones starting at the
   working directory *)
resolve(p, wd) ==
    IF Len(p) > 0 /\ p[1] = SEP THEN components(p, 1, <<>>)
    ELSE wd \o components(p, 1, <<>>)

(* os.path.exists(path) *)
os_path_exists(path, files, wd) == resolve(path, wd) \in files

(* any([os.path.exists(f"{dirname}/{path}") for path in [".git", ".idea", ".venv"]]) *)
marker_found(dir, files, wd) ==
    \E m \in MarkerNames : os_path_exists(dir \o <<SEP, m>>, files, wd)

(* seq[:stop] *)
slice_to(seq, stop) ==
    LET n == Len(seq)
        e == IF stop < 0 THEN (IF stop + n < 0 THEN 0 ELSE stop + n)
             ELSE (IF stop > n THEN n ELSE stop)
    IN  SubSeq(seq, 1, e)

(* seq[start:] for 0 <= start *)
slice_from(seq, start) == SubSeq(seq, start + 1, Len(seq))

NoneDir == <<"None">>

Spaces(n) == [i \in 1..n |-> SP]

(* out.split("\n") *)
RECURSIVE split_lines(_, _)
split_lines(s, cur) ==
    IF Len(s) = 0 THEN <<cur>>
    ELSE IF s[1] = NL THEN <<cur>> \o split_lines(Tail(s), <<>>)
    ELSE split_lines(Tail(s), Append(cur, s[1]))

(* "\n".join(lines) *)
RECURSIVE join_lines(_)
join_lines(ls) ==
    IF Len(ls) = 0 THEN <<>>
    ELSE IF Len(ls) = 1 THEN ls[1]
    ELSE ls[1] \o <<NL>> \o join_lines(Tail(ls))

(* lines 120-123: the file name with the project directory stripped *)
strip_project(fname, dir) ==
    IF dir = NoneDir THEN fname
    ELSE LET d == dir \o <<SEP>>
         IN  IF SubSeq(fname, 1, Len(d)) = d THEN slice_from(fname, Len(d)) ELSE fname

(* lines 124-125 *)
make_prefix(fname, lineno, nframes) == fname \o <<":">> \o int_str(lineno) \o Spaces(nframes)

(* lines 126-128: out, or what json_encode raised *)
RECURSIVE append_vars(_, _, _)
append_vars(out, var, h) ==
    IF Len(var) = 0 THEN PyStr(out)
    ELSE LET j == json_encode(var[1], h)
         IN  IF IsRaise(j) THEN j ELSE append_vars(out \o <<SP>> \o j[2], Tail(var), h)

(* lines 129-135 *)
layout_lines(out, prefix) ==
    LET lines == split_lines(out, <<>>)
        n == Len(lines)
    IN  IF lines[n] = <<QUOTE>> /\ n < 2 THEN Raise("IndexError")
        ELSE LET merged == IF lines[n] = <<QUOTE>>
                           THEN [i \in 1..(n - 1) |->
                                    IF i = n - 1 THEN lines[i] \o <<QUOTE>> ELSE lines[i]]
                           ELSE lines
                 indented == [i \in 1..Len(merged) |->
                                 IF i = 1 THEN merged[i]
                                 ELSE Spaces(Len(prefix) + 2) \o merged[i]]
             IN  PyStr(join_lines(indented))

(* lines 120-135 of dumped_at, after the search *)
dumped_at_format(fname, dir, lineno, nframes, var, h) ==
    LET prefix == make_prefix(strip_project(fname, dir), lineno, nframes)
        out == append_vars(prefix, var, h)
    IN  IF IsRaise(out) THEN out ELSE layout_lines(out[2], prefix)

(* frames of my.py itself: the line of each call *)
LibFile == <<SEP, "a", SEP, "y">>
DumpedAtLine == 110
DumpLine == 139
LogLine == 145
ErrLine == 149

Frame(f, n) == [filename |-> f, lineno |-> n]

WrapperLine(w) ==
    CASE w = "dump" -> DumpLine [] w = "log" -> LogLine [] w = "err" -> ErrLine

(* traceback.extract_stack() inside dumped_at, the caller's frames being cs *)
extract_stack(cs, w) ==
    IF w = "direct" THEN Append(cs, Frame(LibFile, DumpedAtLine))
    ELSE cs \o <<Frame(LibFile, WrapperLine(w)), Frame(LibFile, DumpedAtLine)>>

(* log.txt *)
Absent == <<"absent", <<>>>>
File(content) == <<"file", content>>

(* open("log.txt", "w"): the file is emptied on opening *)
log_open_truncating(f) == File(<<>>)

(* open("log.txt", "a") *)
log_open(f) == IF f = Absent THEN File(<<>>) ELSE f

(* file.write(record) *)
file_write(f, record) == File(f[2] \o record)

----------------------------------------------------------------------------
(* The calls dumped_at is run on *)

MaxDepth == 2        \* deepest caller stack
MaxSkip == 3         \* largest skip handed to dumped_at directly
MaxIters == 8        \* iterations of the search loop the model follows
MaxCalls == 2        \* log calls in one run

Root == <<>>
WorkDirs == {Root, <<<<"b">>>>}

F1 == Frame(<<SEP, "a", SEP, "m">>, 7)
F2 == Frame(<<"a", SEP, "m">>, 12)
F3 == Frame(<<SEP, SEP, "a", SEP, "b", SEP, "m">>, 5)
CallerFrames == {F1, F2, F3}
CallerStacks == SeqsUpTo(CallerFrames, MaxDepth) \ {<<>>}

TupleKeyed == PyDict(<< <<PyTuple(<<PyInt(1)>>), PyInt(1)>> >>)

ArgTuples ==
    {<<>>, <<PyInt(1)>>, <<PyStr(<<"x", NL>>)>>, <<PyStr(<<"x", NL, "y">>), PyInt(1)>>,
     <<TupleKeyed>>}

MarkerCandidates ==
    {<< <<".git">> >>, << <<"a">>, <<".idea">> >>, << <<"b">>, <<"a">>, <<".venv">> >>}

(* the narrower inputs of the log runs *)
LogStacks == {<<F1>>, <<F2, F1>>, <<F2>>}
LogArgs == {<<PyStr(<<"x">>)>>, <<PyStr(<<"x", NL>>), PyInt(1)>>, <<TupleKeyed>>}
LogFileSystems == {{}, {<< <<"a">>, <<".idea">> >>}}
LogContents == {Absent, File(<<>>), File(<<"z", NL>>)}

NoLocals ==
    /\ who = "none"
    /\ stack = <<>>
    /\ skip = 0
    /\ vars_ = <<>>
    /\ frames = <<>>
    /\ filename = <<>>
    /\ dirname = <<>>
    /\ iters = 0
    /\ result = Unset

DumpInitWith(fileSystems, contents) ==
    /\ dpc = "idle"
    /\ NoLocals
    /\ fs \in fileSystems
    /\ cwd \in WorkDirs
    /\ logfile \in [WorkDirs -> contents]
    /\ logInit = logfile
    /\ logged = <<>>
    /\ emitted = <<"none", <<>>>>
    /\ calls = 0

DumpInit == DumpInitWith(SUBSET MarkerCandidates, {Absent})
LogInit == DumpInitWith(LogFileSystems, LogContents)

DumpIdle ==
    /\ dpc = "off"
    /\ NoLocals
    /\ fs = {}
    /\ cwd = Root
    /\ logfile = [d \in WorkDirs |-> Absent]
    /\ logInit = logfile
    /\ logged = <<>>
    /\ emitted = <<"none", <<>>>>
    /\ calls = 0

(* lines 110-113: the call dumped_at(k, *a) with the stack st *)
dumped_at_enter(st, k, a) ==
    /\ emitted' = <<"none", <<>>>>
    /\ stack' = st
    /\ skip' = k
    /\ vars_' = a
    /\ iters' = 0
    /\ LET fr == slice_to(st, -k)
       IN  /\ frames' = fr
           /\ IF Len(fr) = 0
              THEN /\ result' = Raise("IndexError")
                   /\ filename' = <<>>
                   /\ dirname' = <<>>
                   /\ dpc' = "done"
              ELSE /\ result' = Unset
                   /\ filename' = fr[Len(fr)].filename
                   /\ dirname' = os_dirname(fr[Len(fr)].filename)
                   /\ dpc' = "search"

(* a direct call dumped_at(k, *a) from the code whose frames are cs *)
DumpedAtCall(cs, k, a) ==
    /\ dpc = "idle"
    /\ who' = "direct"
    /\ dumped_at_enter(extract_stack(cs, "direct"), k, a)
    /\ UNCHANGED <<fs, cwd, logfile, logInit, logged, calls>>
    /\ UNCHANGED <<encVars, chunkVars>>

(* dump called with the values a: up to the call of dumped_at *)
Dump(cs, a) ==
    /\ dpc = "idle"
    /\ who' = "dump"
    /\ dumped_at_enter(extract_stack(cs, "dump"), 2, a)
    /\ UNCHANGED <<fs, cwd, logfile, logInit, logged, calls>>
    /\ UNCHANGED <<encVars, chunkVars>>

(* err called with the values a: up to the call of dumped_at *)
Err(cs, a) ==
    /\ dpc = "idle"
    /\ who' = "err"
    /\ dumped_at_enter(extract_stack(cs, "err"), 2, a)
    /\ UNCHANGED <<fs, cwd, logfile, logInit, logged, calls>>
    /\ UNCHANGED <<encVars, chunkVars>>

(* log called with the values a: open("log.txt", "a"), then the call of dumped_at *)
Log(cs, a) ==
    /\ dpc = "idle"
    /\ calls < MaxCalls
    /\ who' = "log"
    /\ logfile' = [logfile EXCEPT ![cwd] = log_open(@)]
    /\ calls' = calls + 1
    /\ dumped_at_enter(extract_stack(cs, "log"), 2, a)
    /\ UNCHANGED <<fs, cwd, logInit, logged>>
    /\ UNCHANGED <<encVars, chunkVars>>

(* lines 114-119: one evaluation of the while condition and of the body *)
SearchStep ==
    /\ dpc = "search"
    /\ iters < MaxIters
    /\ IF marker_found(dirname, fs, cwd)
       THEN /\ dpc' = "format"
            /\ UNCHANGED <<dirname, iters>>
       ELSE IF dirname \in {<<>>, <<SEP>>}
            THEN /\ dirname' = NoneDir
                 /\ dpc' = "format"
                 /\ UNCHANGED iters
            ELSE /\ dirname' = os_dirname(dirname)
                 /\ iters' = iters + 1
                 /\ dpc' = "search"
    /\ UNCHANGED <<who, stack, skip, vars_, frames, filename, result,
                   fs, cwd, logfile, logInit, logged, emitted, calls>>
    /\ UNCHANGED <<encVars, chunkVars>>

(* lines 120-135 *)
Format ==
    /\ dpc = "format"
    /\ filename' = strip_project(filename, dirname)
    /\ result' = dumped_at_format(filename, dirname, frames[Len(frames)].lineno,
                                  Len(frames), vars_, handling)
    /\ dpc' = "done"
    /\ UNCHANGED <<who, stack, skip, vars_, frames, dirname, iters,
                   fs, cwd, logfile, logInit, logged, emitted, calls>>
    /\ UNCHANGED <<encVars, chunkVars>>

ClearLocals ==
    /\ dpc' = "idle"
    /\ who' = "none"
    /\ stack' = <<>>
    /\ skip' = 0
    /\ vars_' = <<>>
    /\ frames' = <<>>
    /\ filename' = <<>>
    /\ dirname' = <<>>
    /\ iters' = 0
    /\ result' = Unset

(* dumped_at returns to the code that called it *)
DumpedAtReturn ==
    /\ dpc = "done"
    /\ who = "direct"
    /\ ClearLocals
    /\ UNCHANGED <<fs, cwd, logfile, logInit, logged, emitted, calls>>
    /\ UNCHANGED <<encVars, chunkVars>>

(* dump: print(...) *)
DumpReturn ==
    /\ dpc = "done"
    /\ who = "dump"
    /\ emitted' = IF IsRaise(result) THEN emitted ELSE <<"stdout", result[2] \o <<NL>>>>
    /\ ClearLocals
    /\ UNCHANGED <<fs, cwd, logfile, logInit, logged, calls>>
    /\ UNCHANGED <<encVars, chunkVars>>

(* err: print(..., file=sys.stderr) *)
ErrReturn ==
    /\ dpc = "done"
    /\ who = "err"
    /\ emitted' = IF IsRaise(result) THEN emitted ELSE <<"stderr", result[2] \o <<NL>>>>
    /\ ClearLocals
    /\ UNCHANGED <<fs, cwd, logfile, logInit, logged, calls>>
    /\ UNCHANGED <<encVars, chunkVars>>

(* log: file.write(...), and the with block closes the file *)
LogReturn ==
    /\ dpc = "done"
    /\ who = "log"
    /\ IF IsRaise(result)
       THEN UNCHANGED <<logfile, logged>>
       ELSE /\ logfile' = [logfile EXCEPT ![cwd] = file_write(@, result[2])]
            /\ logged' = Append(logged, result[2])
    /\ ClearLocals
    /\ UNCHANGED <<fs, cwd, logInit, emitted, calls>>
    /\ UNCHANGED <<encVars, chunkVars>>

----------------------------------------------------------------------------
(* chunks_list *)

MaxListLen == 4      \* longest list drawn, beside the list 1..5
MaxSize == 3         \* largest chunk size
MaxStops == 2        \* StopIterations followed on one generator

GenIds == {1, 2}

Lists == SeqsUpTo({1, 2}, MaxListLen) \cup {<<1, 2, 3, 4, 5>>}
Sizes == (-1)..MaxSize

NoGen == [state |-> "none", i |-> 0, stop |-> 0, out |-> <<>>, stops |-> 0, err |-> "none"]

ChunkInit ==
    /\ lst \in Lists
    /\ size \in Sizes
    /\ gens = [g \in GenIds |-> NoGen]

ChunkIdle ==
    /\ lst = <<>>
    /\ size = 1
    /\ gens = [g \in GenIds |-> NoGen]

(* seq[a:b] for 0 <= a <= b *)
py_slice(seq, a, b) == SubSeq(seq, a + 1, IF b > Len(seq) THEN Len(seq) ELSE b)

(* lst[i:i + size + 1]: a slice one element too long *)
chunk_at_overlapping(l, i, sz) == py_slice(l, i, i + sz + 1)

(* lst[i:i + size] *)
chunk_at(l, i, sz) == py_slice(l, i, i + sz)

(* whether i is in range(0, n, sz): sz is not 0 *)
in_range(i, n, sz) == sz > 0 /\ i >= 0 /\ i < n /\ i % sz = 0

(* the call chunks_list(lst, size): a generator object, its body not yet run *)
ChunksList(g) ==
    /\ gens[g].state = "none"
    /\ gens' = [gens EXCEPT ![g].state = "created"]
    /\ UNCHANGED <<lst, size>>
    /\ UNCHANGED <<encVars, dumpVars>>

(* next(generator) *)
NextChunk(g) ==
    /\ gens[g].state \in {"created", "suspended", "finished"}
    /\ gens[g].stops < MaxStops
    /\ LET gen == gens[g]
           i == IF gen.state = "created" THEN 0 ELSE gen.i + size
           n == IF gen.state = "created" THEN Len(lst) ELSE gen.stop
       IN  gens' = [gens EXCEPT ![g] =
               IF gen.state = "finished"
               THEN [gen EXCEPT !.stops = @ + 1]
               ELSE IF gen.state = "created" /\ size = 0
               THEN [gen EXCEPT !.state = "finished", !.err = "ValueError"]
               ELSE IF in_range(i, n, size)
               THEN [gen EXCEPT !.state = "suspended", !.i = i, !.stop = n,
                                !.out = Append(@, chunk_at(lst, i, size))]
               ELSE [gen EXCEPT !.state = "finished", !.stop = n, !.stops = @ + 1]]
    /\ UNCHANGED <<lst, size>>
    /\ UNCHANGED <<encVars, dumpVars>>

----------------------------------------------------------------------------
(* The specifications *)

EncNext == DefaultEncode \/ JsonEncode \/ JsonDecode

DumpNext ==
    \/ \E cs \in CallerStacks, k \in 0..MaxSkip, a \in ArgTuples : DumpedAtCall(cs, k, a)
    \/ \E cs \in CallerStacks, a \in ArgTuples : Dump(cs, a)
    \/ \E cs \in CallerStacks, a \in ArgTuples : Err(cs, a)
    \/ SearchStep
    \/ Format
    \/ DumpedAtReturn
    \/ DumpReturn
    \/ ErrReturn

LogNext ==
    \/ \E cs \in LogStacks, a \in LogArgs : Log(cs, a)
    \/ SearchStep
    \/ Format
    \/ LogReturn

ChunkNext == \E g \in GenIds : ChunksList(g) \/ NextChunk(g)

InitEnc == EncInit /\ DumpIdle /\ ChunkIdle
InitDump == EncIdle /\ DumpInit /\ ChunkIdle
InitLog == EncIdle /\ LogInit /\ ChunkIdle
InitChunks == EncIdle /\ DumpIdle /\ ChunkInit

SpecEnc == InitEnc /\ [][EncNext]_vars
SpecDump == InitDump /\ [][DumpNext]_vars
SpecLog == InitLog /\ [][LogNext]_vars
SpecChunks == InitChunks /\ [][ChunkNext]_vars

----------------------------------------------------------------------------
(* Properties of the encoder and of json_encode / json_decode *)

IsPrimitive(x) == x[1] \in {"int", "str", "bool", "none"}

RECURSIVE JsonShaped(_)
JsonShaped(x) ==
    CASE IsPrimitive(x) -> TRUE
      [] x[1] \in {"list", "tuple"} -> \A i \in 1..Len(x[2]) : JsonShaped(x[2][i])
      [] x[1] = "dict" ->
            \A i \in 1..Len(x[2]) : x[2][i][1][1] = "str" /\ JsonShaped(x[2][i][2])
      [] OTHER -> FALSE

Encoded == epc \in {"encoded", "text", "decoded"}
Serialized == epc \in {"text", "decoded"}

(* C1: whenever default_encode returns, its result is made of strings,
   numbers, booleans, null, sequences and mappings whose keys are all strings,
   at every depth. *)
C1_StringKeyedResult == (Encoded /\ ~IsRaise(encoded)) => JsonShaped(encoded)

PlainInstance(x) ==
    /\ x[1] = "obj"
    /\ x[2].str = "default"
    /\ x[2].dict
    /\ \A i \in 1..Len(x[2].attrs) : IsPrimitive(x[2].attrs[i][2])

(* C2: an instance with the default string form encodes to {"class": type
   name} merged with its attributes, primitive attribute values unchanged (the
   number 1 stays the number 1). *)
C2_InstanceMapping ==
    (Encoded /\ PlainInstance(arg)) =>
        encoded = PyDict(merge_dicts(<<Attr("class", PyStr(<<arg[2].cls>>))>>, arg[2].attrs))

RECURSIVE InContainerSubset(_)
InContainerSubset(x) ==
    CASE x[1] \in {"int", "bool", "none"} -> TRUE
      [] x[1] = "str" -> \A i \in 1..Len(x[2]) : x[2][i] # NL
      [] x[1] = "list" -> \A i \in 1..Len(x[2]) : InContainerSubset(x[2][i])
      [] x[1] = "dict" ->
            \A i \in 1..Len(x[2]) :
                /\ x[2][i][1][1] = "str"
                /\ x[2][i][1] # PyStr(<<"class">>)
                /\ InContainerSubset(x[2][i][1])
                /\ InContainerSubset(x[2][i][2])
      [] OTHER -> FALSE

(* C3: for a value built from numbers, booleans, null, strings without
   newlines, lists and string-keyed mappings without a "class" key,
   json_decode(json_encode(x)) equals x. *)
C3_RoundTrip ==
    InContainerSubset(arg) =>
        /\ Serialized => ~IsRaise(text)
        /\ epc = "decoded" => decoded = arg

(* C4: json_encode returns a string for every input value and never raises. *)
C4_RenderingTotal == Serialized => ~IsRaise(text)

(* traceback.format_exception(e): the text of e itself *)
format_exception(e) ==
    IF e[2].site = "" THEN <<e[2].cls, ": ">> \o e[2].msg \o <<NL>>
    ELSE format_exc(e)

(* C5: an exception value encodes to the formatted stack trace of that
   exception itself, whatever exception is being handled at the time. *)
C5_ExceptionTrace ==
    (Encoded /\ arg[1] = "exc") => encoded = PyStr(format_exception(arg))

(* C7: a mapping tagged with the name of a type of the calling module decodes
   to an instance of that type: what json_encode made of an instance of Foo is
   decoded to an instance of Foo again. *)
C7_DecodeCallerType ==
    (epc = "decoded" /\ PlainInstance(arg) /\ arg[2].cls \in callerGlobals) =>
        decoded[1] = "obj" /\ decoded[2].cls = arg[2].cls

----------------------------------------------------------------------------
(* Properties of dumped_at *)

IsPrefixOf(p, q) == Len(p) <= Len(q) /\ SubSeq(q, 1, Len(p)) = p
IsSuffixOf(p, q) == Len(p) <= Len(q) /\ SubSeq(q, Len(q) - Len(p) + 1, Len(q)) = p

Encodable(var) == \A i \in 1..Len(var) : ~IsRaise(json_encode(var[i], handling))

(* C9: for 0 <= skip < depth, dumped_at returns a string attributed to the
   frame left innermost once skip frames are dropped, and the spaces after
   path:line are as many as the frames that remain, depth - skip. *)
C9_SkipAttribution ==
    (dpc = "done" /\ skip >= 0 /\ skip < Len(stack) /\ Encodable(vars_)) =>
        LET d == Len(stack)
            fr == stack[d - skip]
            pre == filename \o <<":">> \o int_str(fr.lineno) \o Spaces(d - skip)
        IN  /\ ~IsRaise(result)
            /\ IsSuffixOf(filename, fr.filename)
            /\ IF vars_ = <<>> THEN result[2] = pre
               ELSE /\ IsPrefixOf(pre \o <<SP>>, result[2])
                    /\ Len(result[2]) > Len(pre) + 1
                    /\ result[2][Len(pre) + 2] # SP

RECURSIVE join_path(_)
join_path(cs) ==
    IF Len(cs) = 0 THEN <<>>
    ELSE IF Len(cs) = 1 THEN cs[1]
    ELSE cs[1] \o <<SEP>> \o join_path(Tail(cs))

(* the file name relative to the nearest ancestor directory holding a
   marker, or the name itself when no ancestor up to the root holds one *)
ExpectedName(orig) ==
    LET fc == resolve(orig, cwd)
        dc == SubSeq(fc, 1, Len(fc) - 1)
        marked == {k \in 0..Len(dc) :
                      \E m \in MarkerNames : Append(SubSeq(dc, 1, k), <<m>>) \in fs}
    IN  IF marked = {} THEN orig
        ELSE LET k == CHOOSE x \in marked : \A y \in marked : y <= x
             IN  join_path(SubSeq(fc, k + 1, Len(fc)))

(* C10: the search for the project root ends (each iteration moves to a
   shorter directory name), and for an absolute file name it leaves the name
   relative to the nearest ancestor holding a marker, the root included, or
   the name itself when there is none. *)
C10_ProjectRoot ==
    /\ dpc = "search" => iters <= Len(frames[Len(frames)].filename)
    /\ (dpc = "done" /\ Len(frames) > 0 /\ frames[Len(frames)].filename[1] = SEP) =>
           filename = ExpectedName(frames[Len(frames)].filename)

----------------------------------------------------------------------------
(* Properties of log *)

RECURSIVE Flatten(_)
Flatten(ss) == IF Len(ss) = 0 THEN <<>> ELSE ss[1] \o Flatten(Tail(ss))

InitContent(d) == IF logInit[d] = Absent THEN <<>> ELSE logInit[d][2]

(* C8: log.txt in the working directory holds what it held at the start
   followed by the records of the log calls so far, in call order and with
   nothing between or after them; it exists once a log call has opened it; the
   log.txt of any other directory is untouched. *)
C8_LogAppendOnly ==
    \A d \in WorkDirs :
        IF d = cwd /\ calls > 0
        THEN logfile[d] = File(InitContent(d) \o Flatten(logged))
        ELSE logfile[d] = logInit[d]

(* two log calls have written different records after the content log.txt
   started with *)
C8_Witness ==
    /\ dpc = "idle"
    /\ logInit[cwd] = File(<<"z", NL>>)
    /\ Len(logged) = 2
    /\ logged[1] # logged[2]
    /\ Len(logfile[cwd][2]) = 2 + Len(logged[1]) + Len(logged[2])

----------------------------------------------------------------------------
(* Properties of chunks_list *)

(* C6: for size >= 1 the chunks a generator has yielded are non-empty
   consecutive slices of lst, each of length size except possibly the last one
   of the list; once the generator is finished they concatenate to lst and no
   further next adds to them; two generators made by two calls yield the same
   chunks. *)
C6_Chunks ==
    size >= 1 =>
        \A g \in GenIds :
            LET out == gens[g].out
            IN  /\ gens[g].err = "none"
                /\ IsPrefixOf(Flatten(out), lst)
                /\ \A k \in 1..Len(out) :
                       /\ Len(out[k]) >= 1
                       /\ Len(out[k]) <= size
                       /\ Len(out[k]) < size => (k = Len(out) /\ Flatten(out) = lst)
                /\ gens[g].state = "finished" => Flatten(out) = lst
                /\ \A h \in GenIds : IsPrefixOf(out, gens[h].out) \/ IsPrefixOf(gens[h].out, out)

(* both generators over [1,2,3,4,5] with size 2 are finished, and one of
   them was asked again *)
C6_Witness ==
    /\ lst = <<1, 2, 3, 4, 5>>
    /\ size = 2
    /\ gens[1].out = << <<1, 2>>, <<3, 4>>, <<5>> >>
    /\ gens[1].stops = 2
    /\ gens[2].state = "finished"
    /\ gens[2].out = gens[1].out

====
